---- MODULE Spec2Model ----
(***************************************************************************)
(* Model of the bcos-wasm execution driver (src/src/lib.rs): one call of   *)
(* BcosWasm::execute, from the context check to the ExecutionResult, with  *)
(* the guest code run by wasmtime as a nondeterministic sequence of guest  *)
(* steps and host-function calls.                                          *)
(***************************************************************************)
EXTENDS Integers, Sequences, FiniteSets, TLC

(* ------------------------------ bounds --------------------------------- *)
\* largest message.gas handed to execute
MaxGas == 1
\* number of bytes of guest linear memory
MemSize == 1

(* --------------------------- program constants ------------------------- *)
CONTRACT_MAIN == "main"
CONTRACT_DEPLOY == "deploy"
CONTRACT_HASH_TYPE == "hash_type"
MEMORY_EXPORT == "memory"
\* the version execute asks has_wasm_version for
WASM_VERSION == 1

EVMC_SUCCESS == "EVMC_SUCCESS"
EVMC_REVERT == "EVMC_REVERT"
EVMC_CONTRACT_VALIDATION_FAILURE == "EVMC_CONTRACT_VALIDATION_FAILURE"
EVMC_WASM_TRAP == "EVMC_WASM_TRAP"
EVMC_INTERNAL_ERROR == "EVMC_INTERNAL_ERROR"

EVMC_CALL == "EVMC_CALL"
EVMC_CREATE == "EVMC_CREATE"
EVMC_CREATE2 == "EVMC_CREATE2"
\* kinds other than EVMC_CREATE are told apart nowhere in execute
CallKinds == { EVMC_CALL, EVMC_CREATE, EVMC_CREATE2 }

(* ------------------------------ inputs --------------------------------- *)
\* Option values: None is the empty sequence, Some(x) the one-element one.
None == << >>
Some(x) == << x >>

WasmMagic == << 0, 97, 115, 109 >>
\* 4-byte groups tried in the magic position and in the version position
MagicChoices == { WasmMagic, << 0, 97, 115, 0 >>, << 1, 97, 115, 109 >> }
VersionChoices == { << 1, 0, 0, 0 >>, << 2, 0, 0, 0 >>, << 1, 0, 0, 1 >>,
                    << 1, 1, 0, 0 >>, << 0, 0, 0, 0 >> }
\* code bytes after the 8-byte header
BodyChoices == { << >>, << 11 >> }
Prefixes(s) == { SubSeq(s, 1, n) : n \in 0..Len(s) }
\* the code byte strings handed to execute: every prefix of magic ++ version ++ body
Codes == UNION { Prefixes(m \o v \o b) :
                    m \in MagicChoices, v \in VersionChoices, b \in BodyChoices }

\* the exports of s at the positions in keep, in declaration order
RECURSIVE Pick(_, _, _)
Pick(s, keep, i) ==
    IF i > Len(s) THEN << >>
    ELSE (IF i \in keep THEN << s[i] >> ELSE << >>) \o Pick(s, keep, i + 1)

\* declaration orders tried: main before deploy and deploy before main, with
\* other exports before, between and after them
DeclarationOrders ==
    { << MEMORY_EXPORT, CONTRACT_MAIN, CONTRACT_HASH_TYPE, CONTRACT_DEPLOY >>,
      << CONTRACT_DEPLOY, CONTRACT_MAIN, CONTRACT_HASH_TYPE, MEMORY_EXPORT >> }
\* export lists of a compiled module: every selection of exports from these
ExportLists == { Pick(o, keep, 1) : o \in DeclarationOrders, keep \in SUBSET (1..4) }

MemBytes == { 0, 7 }
GasValues == (0 - 1)..MaxGas
HashRets == { 0, 1, 2 }

VARIABLES
    ctx,          \* TRUE when execute got Some(context)
    code,         \* the code bytes
    kind,         \* message.kind()
    msg_gas,      \* message.gas()
    host_sm,      \* context.get_host_context().isSMCrypto
    pc,           \* position of the driver in execute
    exports,      \* Some(export list) of the compiled module
    call_name,    \* the entry point the driver selected
    running,      \* the guest export being run ("" when none)
    mem,          \* guest linear memory
    gas,          \* Some(value of the global bcos.gas) once created
    env,          \* the EnvironmentInterface's output/revert state
    trap,         \* Some(message of the Trap that ended a guest call)
    result,       \* Some(ExecutionResult) once execute returned
    steps,        \* history: engine operations the driver performed, in order
    hashRet,      \* history: Some(value hash_type returned)
    lastFinish,   \* history: Some(bytes of the latest finish call that succeeded)
    lastRevert,   \* history: Some(bytes of the latest revert call that succeeded)
    fatal,        \* history: Some(<< capability, why >>) of a host call that has to trap
    callRet,      \* history: Some(<< nested status, value call returned to the guest >>)
    storageCall,  \* Some(arguments and outcome of a getStorage call in lengths)
    lock,         \* the holders of the Mutex around the EnvironmentInterface
    hostAt        \* Some(<< host function, position in its adapter >>) while one runs

vars == << ctx, code, kind, msg_gas, host_sm, pc, exports, call_name, running, mem,
           gas, env, trap, result, steps, hashRet, lastFinish, lastRevert, fatal,
           callRet, storageCall, lock, hostAt >>

inputs == << ctx, code, kind, msg_gas, host_sm >>
hist == << hashRet, lastFinish, lastRevert, fatal >>
guest == << mem, gas, env >>
\* what only the host functions of the storage, message and call group change
aux == << callRet, storageCall, lock, hostAt >>

(* --------------------------- pure functions ---------------------------- *)
\* variant: only the first three bytes of the magic are compared
has_wasm_preamble_three_bytes(data) ==
    Len(data) >= 8 /\ SubSeq(data, 1, 3) = << 0, 97, 115 >>

has_wasm_preamble(data) ==
    Len(data) >= 8 /\ SubSeq(data, 1, 4) = << 0, 97, 115, 109 >>

\* variant: only the first byte of the version is compared
has_wasm_version_first_byte(data, version) ==
    Len(data) >= 8 /\ data[5] = version

has_wasm_version(data, version) ==
    Len(data) >= 8 /\ SubSeq(data, 5, 8) = << version, 0, 0, 0 >>

\* Iterator::any on the export iterator, started at position from: the position
\* of the first export named name, or 0; the iterator is left just after it.
RECURSIVE any(_, _, _)
any(exps, from, name) ==
    IF from > Len(exps) THEN 0
    ELSE IF exps[from] = name THEN from
    ELSE any(exps, from + 1, name)

verify_contract(exps) ==
    LET m == any(exps, 1, CONTRACT_MAIN)
    IN  IF m = 0 THEN FALSE
        ELSE any(exps, m + 1, CONTRACT_DEPLOY) # 0

ExecutionResult(status, gas_left, output) ==
    [ status |-> status, gas_left |-> gas_left, output |-> output ]

\* ExecutionResult::new(EVMC_INTERNAL_ERROR, 0, None)
InternalError == ExecutionResult(EVMC_INTERNAL_ERROR, 0, None)

\* ExecutionResult::new(EVMC_CONTRACT_VALIDATION_FAILURE, 0, None)
ValidationFailure == ExecutionResult(EVMC_CONTRACT_VALIDATION_FAILURE, 0, None)

\* the result when hash_type cannot be looked up
HashTypeLookupFailure == ExecutionResult(EVMC_CONTRACT_VALIDATION_FAILURE, 0, None)

\* variant: a failed lookup of the entry point is reported as a trap
EntryLookupFailure_trap == ExecutionResult(EVMC_WASM_TRAP, 0, None)

\* the result when deploy or main cannot be looked up
EntryLookupFailure == ExecutionResult(EVMC_CONTRACT_VALIDATION_FAILURE, 0, None)

\* variant: a trap in hash_type is reported like a failed lookup
HashTypeTrap_validation == ExecutionResult(EVMC_CONTRACT_VALIDATION_FAILURE, 0, None)

\* the result when the call of hash_type traps
HashTypeTrap == ExecutionResult(EVMC_WASM_TRAP, 0, None)

\* the result when the call of deploy or main traps
\* variant: a trap reports the gas counter and the buffer filled so far
EntryTrap_partial == ExecutionResult(EVMC_WASM_TRAP, gas[1], Some(env.output))

EntryTrap == ExecutionResult(EVMC_WASM_TRAP, 0, None)

\* variant: every non-zero value counts as the SM flag
code_sm_crypto_nonzero(ret) == ret # 0

\* the contract's hash flag from the value hash_type returned
code_sm_crypto(ret) == ret = 1

\* variant: EVMC_CREATE2 is taken for a deployment too
entry_name_create2(k) ==
    IF k \in { EVMC_CREATE, EVMC_CREATE2 } THEN CONTRACT_DEPLOY ELSE CONTRACT_MAIN

\* call_name: deploy for EVMC_CREATE, main otherwise
entry_name(k) == IF k = EVMC_CREATE THEN CONTRACT_DEPLOY ELSE CONTRACT_MAIN

\* variant: the code is returned for every kind
SuccessResult_code_always(k, gas_left, code_bytes, output) ==
    ExecutionResult(EVMC_SUCCESS, gas_left, Some(code_bytes))

\* variant: a deployment returns the output buffer as well
SuccessResult_output_always(k, gas_left, code_bytes, output) ==
    ExecutionResult(EVMC_SUCCESS, gas_left, Some(output))

\* ExecutionResult::success(gas_left, Some(code)) for a deployment, else Some(output)
SuccessResult(k, gas_left, code_bytes, output) ==
    IF k = EVMC_CREATE
    THEN ExecutionResult(EVMC_SUCCESS, gas_left, Some(code_bytes))
    ELSE ExecutionResult(EVMC_SUCCESS, gas_left, Some(output))

\* ExecutionResult::new(EVMC_REVERT, 0, Some(output))
RevertResult(output) == ExecutionResult(EVMC_REVERT, 0, Some(output))

\* instance.get_memory / get_typed_func: the export exists and has the wanted type
get_export(exps, name, well_typed) ==
    /\ \E i \in 1..Len(exps) : exps[i] = name
    /\ well_typed

(* ------------- EnvironmentInterface (module fbei) and memory ----------- *)
Offsets == 0..MemSize
Sizes == 0..(MemSize + 1)

\* the bytes of guest memory at offset .. offset + size - 1
MemRange(m, offset, size) == [ i \in 1..size |-> m[offset + i - 1] ]

\* bounds-checked read of guest memory: None when the range is outside memory
read_memory(m, offset, size) ==
    IF offset + size <= MemSize THEN Some(MemRange(m, offset, size)) ELSE None

env_finish(e, m, offset, size) ==
    LET r == read_memory(m, offset, size)
    IN  IF r = None THEN None ELSE Some([ e EXCEPT !.output = r[1] ])

env_revert(e, m, offset, size) ==
    LET r == read_memory(m, offset, size)
    IN  IF r = None THEN None
        ELSE Some([ e EXCEPT !.revert_data = r[1], !.reverted = TRUE ])

get_output(e) == IF e.reverted THEN e.revert_data ELSE e.output

get_gas_left(g) == g[1]

Init ==
    /\ ctx \in BOOLEAN
    /\ code \in Codes
    /\ kind \in CallKinds
    /\ msg_gas \in 0..MaxGas
    /\ host_sm \in BOOLEAN
    /\ pc = "context"
    /\ exports = None
    /\ call_name = ""
    /\ running = ""
    /\ mem = [ i \in 0..(MemSize - 1) |-> 0 ]
    /\ gas = None
    /\ env = [ output |-> << >>, revert_data |-> << >>, reverted |-> FALSE,
               input |-> << >>, return_data |-> << >> ]
    /\ trap = None
    /\ result = None
    /\ steps = << >>
    /\ hashRet = None
    /\ lastFinish = None
    /\ lastRevert = None
    /\ fatal = None
    /\ callRet = None
    /\ storageCall = None
    /\ lock = { }
    /\ hostAt = None

Return(r) ==
    /\ pc' = "done"
    /\ result' = Some(r)

\* the driver goes on to the step at
Goto(at) ==
    /\ pc' = at
    /\ UNCHANGED result

\* history of the engine operations: what was done, and to which export
Did(what, name) == steps' = Append(steps, << what, name >>)

\* variant: the context is looked at only after the preamble check
CheckContext_after_preamble ==
    /\ pc = "context"
    /\ IF ~has_wasm_preamble(code) THEN Return(ValidationFailure)
       ELSE IF ctx THEN Goto("preamble") ELSE Return(InternalError)
    /\ UNCHANGED << inputs, aux, exports, call_name, running, guest, trap, steps, hist >>

CheckContext ==
    /\ pc = "context"
    /\ IF ctx THEN Goto("preamble") ELSE Return(InternalError)
    /\ UNCHANGED << inputs, aux, exports, call_name, running, guest, trap, steps, hist >>

CheckPreamble ==
    /\ pc = "preamble"
    /\ IF has_wasm_preamble(code) THEN Goto("version") ELSE Return(ValidationFailure)
    /\ UNCHANGED << inputs, aux, exports, call_name, running, guest, trap, steps, hist >>

CheckVersion ==
    /\ pc = "version"
    /\ IF has_wasm_version(code, WASM_VERSION)
       THEN Goto("compile")
       ELSE Return(ValidationFailure)
    /\ UNCHANGED << inputs, aux, exports, call_name, running, guest, trap, steps, hist >>

\* Module::from_binary: the engine accepts the code, giving a module with some
\* export list, or rejects it.
Compile ==
    /\ pc = "compile"
    /\ Did("compile", "")
    /\ \/ \E e \in ExportLists :
            /\ exports' = Some(e)
            /\ Goto("link")
       \/ /\ Return(ValidationFailure)
          /\ UNCHANGED exports
    /\ UNCHANGED << inputs, aux, call_name, running, guest, trap, hist >>

\* Store, Linker, the gas global and the imports.
Link ==
    /\ pc = "link"
    /\ gas' = Some(msg_gas)
    /\ Goto("verify")
    /\ UNCHANGED << inputs, aux, exports, call_name, running, mem, env, trap, steps, hist >>

VerifyBeforeInstantiate ==
    /\ pc = "verify"
    /\ IF kind = EVMC_CREATE /\ ~verify_contract(exports[1])
       THEN Return(ValidationFailure)
       ELSE Goto("instantiate")
    /\ UNCHANGED << inputs, aux, exports, call_name, running, guest, trap, steps, hist >>

\* linker.instantiate: succeeds, or fails (unsatisfied import, trap in start).
Instantiate ==
    /\ pc = "instantiate"
    /\ Did("instantiate", "")
    /\ \/ Goto("memory")
       \/ Return(ValidationFailure)
    /\ UNCHANGED << inputs, aux, exports, call_name, running, guest, trap, hist >>

\* instance.get_memory(store, "memory"); is_memory: the export is a memory
GetMemory ==
    /\ pc = "memory"
    /\ Did("lookup", MEMORY_EXPORT)
    /\ \E is_memory \in BOOLEAN :
          IF get_export(exports[1], MEMORY_EXPORT, is_memory)
          THEN Goto("select")
          ELSE Return(ValidationFailure)
    /\ UNCHANGED << inputs, aux, exports, call_name, running, guest, trap, hist >>

SelectEntry ==
    /\ pc = "select"
    /\ call_name' = entry_name(kind)
    /\ IF kind = EVMC_CREATE
       THEN IF verify_contract(exports[1])
            THEN Goto("hash_type")
            ELSE Return(ValidationFailure)
       ELSE Goto("entry")
    /\ UNCHANGED << inputs, aux, exports, running, guest, trap, steps, hist >>

\* get_typed_func::<(), i32>(hash_type) and the start of its call_async;
\* typed: the export is a function of that type
CallHashType ==
    /\ pc = "hash_type"
    /\ \E typed \in BOOLEAN :
          IF get_export(exports[1], CONTRACT_HASH_TYPE, typed)
          THEN /\ Goto("guest")
               /\ running' = CONTRACT_HASH_TYPE
               /\ steps' = steps \o << << "lookup", CONTRACT_HASH_TYPE >>,
                                      << "call", CONTRACT_HASH_TYPE >> >>
          ELSE /\ Return(HashTypeLookupFailure)
               /\ Did("lookup", CONTRACT_HASH_TYPE)
               /\ UNCHANGED running
    /\ UNCHANGED << inputs, aux, exports, call_name, guest, trap, hist >>

\* get_typed_func::<(), ()>(call_name) and the start of its call_async
CallEntry ==
    /\ pc = "entry"
    /\ \E typed \in BOOLEAN :
          IF get_export(exports[1], call_name, typed)
          THEN /\ Goto("guest")
               /\ running' = call_name
               /\ steps' = steps \o << << "lookup", call_name >>, << "call", call_name >> >>
          ELSE /\ Return(EntryLookupFailure)
               /\ Did("lookup", call_name)
               /\ UNCHANGED running
    /\ UNCHANGED << inputs, aux, exports, call_name, guest, trap, hist >>

(* ------------------------------ guest code ----------------------------- *)
\* a Trap ends the guest call in progress: call_async returns Err(message)
Trapped(message) ==
    /\ running' = ""
    /\ trap' = Some(message)
    /\ Return(IF running = CONTRACT_HASH_TYPE THEN HashTypeTrap ELSE EntryTrap)

\* a store instruction of the guest
GuestStore ==
    /\ pc = "guest"
    /\ \E a \in DOMAIN mem, b \in MemBytes : mem' = [ mem EXCEPT ![a] = b ]
    /\ UNCHANGED << inputs, aux, pc, exports, call_name, running, gas, env, trap, result,
                    steps, hist >>

\* global.set on the imported mutable global bcos.gas
GuestSetGas ==
    /\ pc = "guest"
    /\ \E v \in GasValues : gas' = Some(v)
    /\ UNCHANGED << inputs, aux, pc, exports, call_name, running, mem, env, trap, result,
                    steps, hist >>

\* an instruction of the guest that traps (unreachable, division by zero, ...)
GuestTrap ==
    /\ pc = "guest"
    /\ Trapped("wasm trap")
    /\ UNCHANGED << inputs, aux, exports, call_name, guest, steps, hist >>

finish ==
    /\ pc = "guest"
    /\ \E data_offset \in Offsets, data_size \in Sizes :
          LET r == env_finish(env, mem, data_offset, data_size)
          IN  IF r = None
              THEN /\ Trapped("trap, memory access out of bounds")
                   /\ fatal' = Some(<< "finish", "memory" >>)
                   /\ UNCHANGED << env, lastFinish >>
              ELSE /\ env' = r[1]
                   /\ lastFinish' = Some(MemRange(mem, data_offset, data_size))
                   /\ UNCHANGED << pc, running, trap, result, fatal >>
    /\ UNCHANGED << inputs, aux, exports, call_name, mem, gas, steps, hashRet, lastRevert >>

revert ==
    /\ pc = "guest"
    /\ \E data_offset \in Offsets, data_size \in Sizes :
          LET r == env_revert(env, mem, data_offset, data_size)
          IN  IF r = None
              THEN /\ Trapped("trap, memory access out of bounds")
                   /\ fatal' = Some(<< "revert", "memory" >>)
                   /\ UNCHANGED << env, lastRevert >>
              ELSE /\ env' = r[1]
                   /\ lastRevert' = Some(MemRange(mem, data_offset, data_size))
                   /\ UNCHANGED << pc, running, trap, result, fatal >>
    /\ UNCHANGED << inputs, aux, exports, call_name, mem, gas, steps, hashRet, lastFinish >>

\* variant: outOfGas traps only when the counter is used up
outOfGas_when_exhausted ==
    /\ pc = "guest"
    /\ fatal' = Some(<< "outOfGas", "always" >>)
    /\ IF gas[1] <= 0
       THEN Trapped("Out Of Gas")
       ELSE UNCHANGED << pc, running, trap, result >>
    /\ UNCHANGED << inputs, aux, exports, call_name, guest, steps, hashRet, lastFinish,
                    lastRevert >>

outOfGas ==
    /\ pc = "guest"
    /\ fatal' = Some(<< "outOfGas", "always" >>)
    /\ Trapped("Out Of Gas")
    /\ UNCHANGED << inputs, aux, exports, call_name, guest, steps, hashRet, lastFinish,
                    lastRevert >>

\* hash_type returns ret: the driver compares the flags
\* variant: the driver goes on to the entry point whatever hash_type returned
HashTypeReturn_ignores_flag ==
    /\ pc = "guest"
    /\ running = CONTRACT_HASH_TYPE
    /\ running' = ""
    /\ \E ret \in HashRets :
          /\ hashRet' = Some(ret)
          /\ Goto("entry")
    /\ UNCHANGED << inputs, aux, exports, call_name, guest, trap, steps, lastFinish, lastRevert,
                    fatal >>

HashTypeReturn ==
    /\ pc = "guest"
    /\ running = CONTRACT_HASH_TYPE
    /\ running' = ""
    /\ \E ret \in HashRets :
          /\ hashRet' = Some(ret)
          /\ IF host_sm # code_sm_crypto(ret)
             THEN Return(ValidationFailure)
             ELSE Goto("entry")
    /\ UNCHANGED << inputs, aux, exports, call_name, guest, trap, steps, lastFinish, lastRevert,
                    fatal >>

\* deploy or main returns
EntryReturn ==
    /\ pc = "guest"
    /\ running # CONTRACT_HASH_TYPE
    /\ running' = ""
    /\ Goto("assemble")
    /\ UNCHANGED << inputs, aux, exports, call_name, guest, trap, steps, hist >>

\* variant: a revert reports the gas counter
AssembleResult_revert_gas ==
    /\ pc = "assemble"
    /\ LET output == get_output(env)
       IN  IF ~env.reverted
           THEN Return(SuccessResult(kind, get_gas_left(gas), code, output))
           ELSE Return(ExecutionResult(EVMC_REVERT, get_gas_left(gas), Some(output)))
    /\ UNCHANGED << inputs, aux, exports, call_name, running, guest, trap, steps, hist >>

\* variant: a non-empty output buffer decides, whatever the revert flag
AssembleResult_output_first ==
    /\ pc = "assemble"
    /\ IF ~env.reverted \/ env.output # << >>
       THEN Return(SuccessResult(kind, get_gas_left(gas), code, env.output))
       ELSE Return(RevertResult(env.revert_data))
    /\ UNCHANGED << inputs, aux, exports, call_name, running, guest, trap, steps, hist >>

AssembleResult ==
    /\ pc = "assemble"
    /\ LET output == get_output(env)
       IN  IF ~env.reverted
           THEN Return(SuccessResult(kind, get_gas_left(gas), code, output))
           ELSE Return(RevertResult(output))
    /\ UNCHANGED << inputs, aux, exports, call_name, running, guest, trap, steps, hist >>

Next ==
    \/ CheckContext
    \/ CheckPreamble
    \/ CheckVersion
    \/ Compile
    \/ Link
    \/ VerifyBeforeInstantiate
    \/ Instantiate
    \/ GetMemory
    \/ SelectEntry
    \/ CallHashType
    \/ CallEntry
    \/ GuestStore
    \/ GuestSetGas
    \/ GuestTrap
    \/ finish
    \/ revert
    \/ outOfGas
    \/ HashTypeReturn
    \/ EntryReturn
    \/ AssembleResult

Spec == Init /\ [][Next]_vars

(* ------- host functions of the message, storage, log and call group ---- *)
\* addresses and topic words, one byte long at the scale of the model's memory
Destination == << 7 >>
Sender == << 7 >>
Origin == << 7 >>
TopicLen == 1
\* byte strings the message and the ledger hand over: input, stored values,
\* return data of a nested call
HostDatas == { << >>, << 7 >>, << 7, 7 >> }
\* status codes of a nested invocation
NestedStatuses == { 0, 1 }
\* << offset, size >> arguments: empty, the whole memory, one byte behind the
\* end, and a range of the memory's size that starts at byte 1
EdgeRanges == { << 0, 0 >>, << 0, MemSize >>, << MemSize, 1 >>, << 1, MemSize >> }
TopicCounts == { 0, 1, 4 }
\* topic1..topic4 offsets: all inside memory, the first outside, the last outside
TopicChoices ==
    { << 0, 0, 0, 0 >>, << MemSize, 0, 0, 0 >>, << 0, 0, 0, MemSize >> }

\* bounds-checked write to guest memory: None when the range is outside memory
write_memory(m, offset, bytes) ==
    IF offset + Len(bytes) <= MemSize
    THEN Some([ i \in DOMAIN m |->
                  IF i >= offset /\ i < offset + Len(bytes)
                  THEN bytes[i - offset + 1] ELSE m[i] ])
    ELSE None

\* number of bytes copied out of a value of length len into a buffer of max bytes
copy_len(len, max) == IF len <= max THEN len ELSE max

\* variant: the buffer getStorage offers is 64 KiB
value_size_64k == 64 * 1024

\* let value_size = 16 * 1024;
value_size == 16 * 1024

\* EnvironmentInterface::get_storage: None when a range is outside memory,
\* else Some(<< memory after the copy, number of bytes written >>)
get_storage(m, key_offset, key_size, value_offset, max, stored) ==
    LET n == copy_len(Len(stored), max)
        w == write_memory(m, value_offset, SubSeq(stored, 1, n))
    IN  IF read_memory(m, key_offset, key_size) = None \/ w = None
        THEN None
        ELSE Some(<< w[1], n >>)

\* EnvironmentInterface::log: the data and the first number_of_topics topic
\* words are read from guest memory
log_in_range(data_offset, data_size, number_of_topics, topics) ==
    /\ data_offset + data_size <= MemSize
    /\ \A i \in 1..number_of_topics : topics[i] + TopicLen <= MemSize

OutOfBounds == "trap, memory access out of bounds"

\* Err(e) of the EnvironmentInterface made a Trap by the adapter
HostError(fn, why, message) ==
    /\ Trapped(message)
    /\ fatal' = Some(<< fn, why >>)

\* Ok(..) of the adapter: the guest goes on
HostOk == UNCHANGED << pc, running, trap, result, fatal >>

\* what no host function of this group changes
hostFrame ==
    << inputs, exports, call_name, gas, steps, hashRet, lastFinish, lastRevert,
       storageCall, lock, hostAt >>

\* writes bytes of the message or of the latest nested call at result_offset
WriteOut(fn, bytes) ==
    /\ pc = "guest"
    /\ \E result_offset \in Offsets :
          LET r == write_memory(mem, result_offset, bytes)
          IN  IF r = None
              THEN HostError(fn, "memory", OutOfBounds) /\ UNCHANGED mem
              ELSE HostOk /\ mem' = r[1]
    /\ UNCHANGED << hostFrame, env, callRet >>

\* returns a number to the guest and changes nothing
ReturnsNumber ==
    /\ pc = "guest"
    /\ UNCHANGED vars

getAddress == WriteOut("getAddress", Destination)

getCallDataSize == ReturnsNumber

\* variant: the Err of get_call_data is dropped and the guest goes on
getCallData_swallow ==
    /\ pc = "guest"
    /\ \E result_offset \in Offsets :
          LET r == write_memory(mem, result_offset, env.input)
          IN  IF r = None
              THEN /\ fatal' = Some(<< "getCallData", "memory" >>)
                   /\ UNCHANGED << pc, running, trap, result, mem >>
              ELSE HostOk /\ mem' = r[1]
    /\ UNCHANGED << hostFrame, env, callRet >>

getCallData == WriteOut("getCallData", env.input)

getCaller == WriteOut("getCaller", Sender)

getTxOrigin == WriteOut("getTxOrigin", Origin)

getReturnDataSize == ReturnsNumber

getReturnData == WriteOut("getReturnData", env.return_data)

getBlockNumber == ReturnsNumber

getBlockTimestamp == ReturnsNumber

setStorage ==
    /\ pc = "guest"
    /\ \E key \in EdgeRanges, value \in EdgeRanges, written \in BOOLEAN :
          IF \/ read_memory(mem, key[1], key[2]) = None
             \/ read_memory(mem, value[1], value[2]) = None
          THEN HostError("setStorage", "memory", OutOfBounds)
          ELSE IF ~written
               THEN HostError("setStorage", "ledger", "trap, storage write failed")
               ELSE HostOk
    /\ UNCHANGED << hostFrame, mem, env, callRet >>

getStorage ==
    /\ pc = "guest"
    /\ \E key \in EdgeRanges, value_offset \in Offsets, stored \in HostDatas :
          LET r == get_storage(mem, key[1], key[2], value_offset, value_size, stored)
          IN  IF r = None
              THEN HostError("getStorage", "memory", OutOfBounds) /\ UNCHANGED mem
              ELSE HostOk /\ mem' = r[1][1]
    /\ UNCHANGED << hostFrame, env, callRet >>

getExternalCodeSize ==
    /\ pc = "guest"
    /\ \E address \in EdgeRanges :
          IF read_memory(mem, address[1], address[2]) = None
          THEN HostError("getExternalCodeSize", "memory", OutOfBounds)
          ELSE HostOk
    /\ UNCHANGED << hostFrame, mem, env, callRet >>

log ==
    /\ pc = "guest"
    /\ \E data \in EdgeRanges, number_of_topics \in TopicCounts, topics \in TopicChoices :
          IF ~log_in_range(data[1], data[2], number_of_topics, topics)
          THEN HostError("log", "memory", OutOfBounds)
          ELSE HostOk
    /\ UNCHANGED << hostFrame, mem, env, callRet >>

\* variant: a non-zero status of the nested invocation is returned to the guest
call_returns_status ==
    /\ pc = "guest"
    /\ \E address \in EdgeRanges, data \in EdgeRanges,
          status \in NestedStatuses, returned \in HostDatas :
          IF \/ read_memory(mem, address[1], address[2]) = None
             \/ read_memory(mem, data[1], data[2]) = None
          THEN HostError("call", "memory", OutOfBounds) /\ UNCHANGED << env, callRet >>
          ELSE /\ env' = [ env EXCEPT !.return_data = returned ]
               /\ callRet' = Some(<< status, status >>)
               /\ HostOk
    /\ UNCHANGED << hostFrame, mem >>

call ==
    /\ pc = "guest"
    /\ \E address \in EdgeRanges, data \in EdgeRanges,
          status \in NestedStatuses, returned \in HostDatas :
          IF \/ read_memory(mem, address[1], address[2]) = None
             \/ read_memory(mem, data[1], data[2]) = None
          THEN HostError("call", "memory", OutOfBounds) /\ UNCHANGED << env, callRet >>
          ELSE /\ env' = [ env EXCEPT !.return_data = returned ]
               /\ IF status = 0
                  THEN callRet' = Some(<< status, 0 >>) /\ HostOk
                  ELSE HostError("call", "status", "call failed") /\ UNCHANGED callRet
    /\ UNCHANGED << hostFrame, mem >>

\* one execution from the selection of the entry point on: a module that
\* exports memory, main, hash_type and deploy passed every check before it
InitHost ==
    /\ ctx = TRUE
    /\ code = WasmMagic \o << WASM_VERSION, 0, 0, 0 >> \o << 11 >>
    /\ kind \in CallKinds
    /\ msg_gas = MaxGas
    /\ host_sm = FALSE
    /\ pc = "select"
    /\ exports = Some(<< MEMORY_EXPORT, CONTRACT_MAIN, CONTRACT_HASH_TYPE, CONTRACT_DEPLOY >>)
    /\ call_name = ""
    /\ running = ""
    /\ mem = [ i \in 0..(MemSize - 1) |-> 0 ]
    /\ gas = Some(msg_gas)
    /\ env \in { [ output |-> << >>, revert_data |-> << >>, reverted |-> FALSE,
                   input |-> i, return_data |-> << >> ] : i \in { << >>, << 7 >> } }
    /\ trap = None
    /\ result = None
    /\ steps = << << "compile", "" >>, << "instantiate", "" >>,
                  << "lookup", MEMORY_EXPORT >> >>
    /\ hashRet = None
    /\ lastFinish = None
    /\ lastRevert = None
    /\ fatal = None
    /\ callRet = None
    /\ storageCall = None
    /\ lock = { }
    /\ hostAt = None

NextHost ==
    \/ SelectEntry
    \/ CallHashType
    \/ CallEntry
    \/ GuestStore
    \/ GuestTrap
    \/ finish
    \/ revert
    \/ getAddress
    \/ getCallDataSize
    \/ getCallData
    \/ setStorage
    \/ getStorage
    \/ getCaller
    \/ getTxOrigin
    \/ getExternalCodeSize
    \/ getBlockNumber
    \/ getBlockTimestamp
    \/ log
    \/ getReturnDataSize
    \/ getReturnData
    \/ call
    \/ outOfGas
    \/ HashTypeReturn
    \/ EntryReturn
    \/ AssembleResult

SpecHost == InitHost /\ [][NextHost]_vars

(* ------------------- getStorage at the size of the code ---------------- *)
\* one page of guest memory
PageSize == 64 * 1024
\* lengths of the value the ledger holds under the key
StoredLens == { 0, 1, value_size - 1, value_size, value_size + 1, 4 * value_size }
\* value offsets around the last place where a full buffer still fits
ValueOffsets ==
    { 0, 1, PageSize - value_size - 1, PageSize - value_size,
      PageSize - value_size + 1, PageSize - 1, PageSize }
\* << key_offset, key_size >>: empty, a 32-byte key, a key behind the memory
KeyRanges == { << 0, 0 >>, << 0, 32 >>, << PageSize, 1 >> }

\* EnvironmentInterface::get_storage in lengths: None when a range is outside
\* a memory of mem_size bytes, else Some(number of bytes written)
get_storage_len(mem_size, key_offset, key_size, value_offset, max, stored_len) ==
    LET n == copy_len(stored_len, max)
    IN  IF key_offset + key_size > mem_size \/ value_offset + n > mem_size
        THEN None
        ELSE Some(n)

\* the guest, running main, is about to call getStorage
InitStorage ==
    /\ ctx = TRUE
    /\ code = WasmMagic \o << WASM_VERSION, 0, 0, 0 >> \o << 11 >>
    /\ kind = EVMC_CALL
    /\ msg_gas = MaxGas
    /\ host_sm = FALSE
    /\ pc = "guest"
    /\ exports = Some(<< MEMORY_EXPORT, CONTRACT_MAIN, CONTRACT_HASH_TYPE, CONTRACT_DEPLOY >>)
    /\ call_name = CONTRACT_MAIN
    /\ running = CONTRACT_MAIN
    /\ mem = [ i \in 0..(MemSize - 1) |-> 0 ]
    /\ gas = Some(msg_gas)
    /\ env = [ output |-> << >>, revert_data |-> << >>, reverted |-> FALSE,
               input |-> << >>, return_data |-> << >> ]
    /\ trap = None
    /\ result = None
    /\ steps = << << "compile", "" >>, << "instantiate", "" >>,
                  << "lookup", MEMORY_EXPORT >>, << "lookup", CONTRACT_MAIN >>,
                  << "call", CONTRACT_MAIN >> >>
    /\ hashRet = None
    /\ lastFinish = None
    /\ lastRevert = None
    /\ fatal = None
    /\ callRet = None
    /\ storageCall \in
          { Some([ key |-> k, value_offset |-> o, stored_len |-> l,
                   written |-> 0, returned |-> None ]) :
              k \in KeyRanges, o \in ValueOffsets, l \in StoredLens }
    /\ lock = { }
    /\ hostAt = None

\* the getStorage adapter on a memory of one page: the buffer it offers is
\* value_size bytes, and it returns the length get_storage gave it
getStorageCall ==
    /\ pc = "guest"
    /\ storageCall[1].returned = None
    /\ LET a == storageCall[1]
           r == get_storage_len(PageSize, a.key[1], a.key[2], a.value_offset,
                                value_size, a.stored_len)
       IN  IF r = None
           THEN HostError("getStorage", "memory", OutOfBounds) /\ UNCHANGED storageCall
           ELSE /\ HostOk
                /\ storageCall' = Some([ a EXCEPT !.written = r[1], !.returned = r ])
    /\ UNCHANGED << inputs, exports, call_name, guest, steps, hashRet, lastFinish,
                    lastRevert, callRet, lock, hostAt >>

NextStorage ==
    \/ getStorageCall
    \/ EntryReturn
    \/ AssembleResult

SpecStorage == InitStorage /\ [][NextStorage]_vars

(* ------------- the Mutex around the EnvironmentInterface --------------- *)
\* the host functions whose adapter locks the EnvironmentInterface (outOfGas
\* does not)
LockingFunctions ==
    { "finish", "revert", "getAddress", "getCallDataSize", "getCallData", "setStorage",
      "getStorage", "getCaller", "getTxOrigin", "getExternalCodeSize", "getBlockNumber",
      "getBlockTimestamp", "log", "getReturnDataSize", "getReturnData", "call" }

\* how the call of the EnvironmentInterface inside the adapter of fn may end
Outcomes(fn) ==
    IF fn \in { "getCallDataSize", "getBlockNumber", "getBlockTimestamp",
                "getReturnDataSize" }
    THEN { "ok" }
    ELSE IF fn = "setStorage" THEN { "ok", "memory", "ledger" }
    ELSE IF fn = "call" THEN { "ok", "memory", "status" }
    ELSE { "ok", "memory" }

ErrorMessage(why) ==
    IF why = "status" THEN "call failed"
    ELSE IF why = "ledger" THEN "trap, storage write failed"
    ELSE OutOfBounds

\* what the steps that take and give back the lock leave alone
lockFrame ==
    << inputs, exports, call_name, mem, env, steps, hashRet, lastFinish, lastRevert,
       storageCall >>

\* env_interface.lock().unwrap() .. (line 400): a Mutex that is held blocks
LinkLock ==
    /\ pc = "link"
    /\ gas' = Some(msg_gas)
    /\ IF lock = { }
       THEN lock' = { "driver" } /\ Goto("link_locked")
       ELSE Goto("blocked") /\ UNCHANGED lock
    /\ UNCHANGED << lockFrame, running, trap, fatal, callRet, hostAt >>

\* .. .set_gas_global(global_gas.clone()); the guard is dropped with the statement
LinkUnlock ==
    /\ pc = "link_locked"
    /\ lock' = lock \ { "driver" }
    /\ Goto("verify")
    /\ UNCHANGED << lockFrame, gas, running, trap, fatal, callRet, hostAt >>

\* instance.get_memory, then env_interface.lock().unwrap() .. (line 442)
GetMemoryLock ==
    /\ pc = "memory"
    /\ Did("lookup", MEMORY_EXPORT)
    /\ \E is_memory \in BOOLEAN :
          IF get_export(exports[1], MEMORY_EXPORT, is_memory)
          THEN IF lock = { }
               THEN lock' = { "driver" } /\ Goto("memory_locked")
               ELSE Goto("blocked") /\ UNCHANGED lock
          ELSE Return(ValidationFailure) /\ UNCHANGED lock
    /\ UNCHANGED << inputs, exports, call_name, mem, env, hashRet, lastFinish, lastRevert,
                    storageCall, gas, running, trap, fatal, callRet, hostAt >>

\* .. .set_memory(memory.clone()); the guard is dropped with the statement
GetMemoryUnlock ==
    /\ pc = "memory_locked"
    /\ lock' = lock \ { "driver" }
    /\ Goto("select")
    /\ UNCHANGED << lockFrame, gas, running, trap, fatal, callRet, hostAt >>

\* the guest calls a host function: wasmtime enters its adapter
AdapterEnter ==
    /\ pc = "guest"
    /\ \E fn \in LockingFunctions : hostAt' = Some(<< fn, "lock" >>)
    /\ Goto("host")
    /\ UNCHANGED << lockFrame, gas, running, trap, fatal, callRet, lock >>

\* let env = env_interface.lock().unwrap();
AdapterLock ==
    /\ pc = "host"
    /\ hostAt[1][2] = "lock"
    /\ IF lock = { }
       THEN lock' = { "adapter" } /\ hostAt' = Some(<< hostAt[1][1], "body" >>)
       ELSE hostAt' = Some(<< hostAt[1][1], "blocked" >>) /\ UNCHANGED lock
    /\ UNCHANGED << lockFrame, gas, pc, running, trap, result, fatal, callRet >>

\* the call of the EnvironmentInterface, made with the guard held; a nested
\* invocation made by call runs on an EnvironmentInterface of its own
AdapterBody ==
    /\ pc = "host"
    /\ hostAt[1][2] = "body"
    /\ \E outcome \in Outcomes(hostAt[1][1]) : hostAt' = Some(<< hostAt[1][1], outcome >>)
    /\ UNCHANGED << lockFrame, gas, pc, running, trap, result, fatal, callRet, lock >>

\* variant: the guard outlives an adapter that returns Ok
AdapterReturn_keeps_lock ==
    /\ pc = "host"
    /\ hostAt[1][2] \in { "ok", "memory", "ledger", "status" }
    /\ hostAt' = None
    /\ IF hostAt[1][2] = "ok"
       THEN /\ pc' = "guest"
            /\ callRet' = IF hostAt[1][1] = "call" THEN Some(<< 0, 0 >>) ELSE callRet
            /\ UNCHANGED << running, trap, result, fatal, lock >>
       ELSE /\ HostError(hostAt[1][1], hostAt[1][2], ErrorMessage(hostAt[1][2]))
            /\ lock' = lock \ { "adapter" }
            /\ UNCHANGED callRet
    /\ UNCHANGED << lockFrame, gas >>

\* the adapter returns Ok(..) or Err(Trap): the guard is dropped in both arms
AdapterReturn ==
    /\ pc = "host"
    /\ hostAt[1][2] \in { "ok", "memory", "ledger", "status" }
    /\ lock' = lock \ { "adapter" }
    /\ hostAt' = None
    /\ IF hostAt[1][2] = "ok"
       THEN /\ pc' = "guest"
            /\ callRet' = IF hostAt[1][1] = "call" THEN Some(<< 0, 0 >>) ELSE callRet
            /\ UNCHANGED << running, trap, result, fatal >>
       ELSE /\ HostError(hostAt[1][1], hostAt[1][2], ErrorMessage(hostAt[1][2]))
            /\ UNCHANGED callRet
    /\ UNCHANGED << lockFrame, gas >>

\* let env = env_interface.lock().unwrap(); (line 519)
AssembleLock ==
    /\ pc = "assemble"
    /\ IF lock = { }
       THEN lock' = { "driver" } /\ Goto("assemble_locked")
       ELSE Goto("blocked") /\ UNCHANGED lock
    /\ UNCHANGED << lockFrame, gas, running, trap, fatal, callRet, hostAt >>

\* the result is built with the guard held; the guard is dropped at the return
AssembleUnlock ==
    /\ pc = "assemble_locked"
    /\ lock' = lock \ { "driver" }
    /\ LET output == get_output(env)
       IN  IF ~env.reverted
           THEN Return(SuccessResult(kind, get_gas_left(gas), code, output))
           ELSE Return(RevertResult(output))
    /\ UNCHANGED << lockFrame, gas, running, trap, fatal, callRet, hostAt >>

\* one execution from the linking on: the module compiled and exports memory,
\* main, hash_type and deploy
InitLock ==
    /\ ctx = TRUE
    /\ code = WasmMagic \o << WASM_VERSION, 0, 0, 0 >> \o << 11 >>
    /\ kind \in CallKinds
    /\ msg_gas = MaxGas
    /\ host_sm \in BOOLEAN
    /\ pc = "link"
    /\ exports = Some(<< MEMORY_EXPORT, CONTRACT_MAIN, CONTRACT_HASH_TYPE, CONTRACT_DEPLOY >>)
    /\ call_name = ""
    /\ running = ""
    /\ mem = [ i \in 0..(MemSize - 1) |-> 0 ]
    /\ gas = None
    /\ env = [ output |-> << >>, revert_data |-> << >>, reverted |-> FALSE,
               input |-> << >>, return_data |-> << >> ]
    /\ trap = None
    /\ result = None
    /\ steps = << << "compile", "" >> >>
    /\ hashRet = None
    /\ lastFinish = None
    /\ lastRevert = None
    /\ fatal = None
    /\ callRet = None
    /\ storageCall = None
    /\ lock = { }
    /\ hostAt = None

NextLock ==
    \/ LinkLock
    \/ LinkUnlock
    \/ VerifyBeforeInstantiate
    \/ Instantiate
    \/ GetMemoryLock
    \/ GetMemoryUnlock
    \/ SelectEntry
    \/ CallHashType
    \/ CallEntry
    \/ GuestTrap
    \/ outOfGas
    \/ AdapterEnter
    \/ AdapterLock
    \/ AdapterBody
    \/ AdapterReturn
    \/ HashTypeReturn
    \/ EntryReturn
    \/ AssembleLock
    \/ AssembleUnlock

SpecLock == InitLock /\ [][NextLock]_vars

(* ------------------------------ properties ----------------------------- *)
Range(s) == { s[i] : i \in DOMAIN s }
Done == pc = "done"
\* a result with the given status, gas_left = 0 and no output
Failed(status) == result = Some([ status |-> status, gas_left |-> 0, output |-> << >> ])
Compiled == << "compile", "" >> \in Range(steps)
Called(name) == << "call", name >> \in Range(steps)
NoGuestCall == \A e \in Range(steps) : e[1] # "call"
StartsWithMagic(data) ==
    /\ Len(data) >= 4
    /\ data[1] = 0 /\ data[2] = 97 /\ data[3] = 115 /\ data[4] = 109
HasVersion1(data) ==
    /\ Len(data) >= 8
    /\ data[5] = 1 /\ data[6] = 0 /\ data[7] = 0 /\ data[8] = 0
Exported(name) == exports # None /\ name \in Range(exports[1])

\* C1: with a context, code that does not start with the magic 00 61 73 6d (short
\* and empty code included) is never compiled, whatever the message kind, and
\* execute returns contract-validation-failure with gas_left = 0 and no output.
C1_NoMagicRejected ==
    (ctx /\ ~StartsWithMagic(code)) =>
        /\ ~Compiled
        /\ exports = None
        /\ pc \in { "context", "preamble", "done" }
        /\ Done => Failed(EVMC_CONTRACT_VALIDATION_FAILURE)

C1_Witness ==
    /\ Done /\ ctx
    /\ Len(code) >= 8 /\ ~StartsWithMagic(code) /\ HasVersion1(code)
    /\ Failed(EVMC_CONTRACT_VALIDATION_FAILURE)

\* C2: with a context, code that starts with the magic but whose bytes 4..8 are
\* not 01 00 00 00 is never compiled and execute returns
\* contract-validation-failure with gas_left = 0 and no output; the driver gets
\* past the version check only when bytes 4..8 are exactly 01 00 00 00.
C2_BadVersionRejected ==
    /\ (ctx /\ StartsWithMagic(code) /\ ~HasVersion1(code)) =>
          /\ ~Compiled
          /\ pc \in { "context", "preamble", "version", "done" }
          /\ Done => Failed(EVMC_CONTRACT_VALIDATION_FAILURE)
    /\ (Compiled \/ pc \notin { "context", "preamble", "version", "done" }) =>
          HasVersion1(code)

C2_Witness ==
    /\ Done /\ ctx
    /\ Len(code) >= 8 /\ StartsWithMagic(code) /\ code[5] = 1 /\ ~HasVersion1(code)
    /\ Failed(EVMC_CONTRACT_VALIDATION_FAILURE)

\* C3: without a context execute returns internal-error with gas_left = 0 and
\* no output for every code and message, and nothing is compiled, instantiated,
\* looked up or called.
C3_NoContextInternalError ==
    ~ctx =>
        /\ steps = << >>
        /\ running = ""
        /\ pc \in { "context", "done" }
        /\ Done => Failed(EVMC_INTERNAL_ERROR)

C3_Witness ==
    /\ Done /\ ~ctx
    /\ ~StartsWithMagic(code)
    /\ Failed(EVMC_INTERNAL_ERROR)

\* C4: on a deployment the export check passes exactly when the module exports
\* both main and deploy, in whatever order and among whatever other exports
\* (then the module goes on to instantiation); when either is absent execute
\* returns contract-validation-failure with gas_left = 0 and no output.
C4_ExportCheckByPresence ==
    (kind = EVMC_CREATE /\ Done /\ exports # None) =>
        IF Exported(CONTRACT_MAIN) /\ Exported(CONTRACT_DEPLOY)
        THEN << "instantiate", "" >> \in Range(steps)
        ELSE /\ Failed(EVMC_CONTRACT_VALIDATION_FAILURE)
             /\ << "instantiate", "" >> \notin Range(steps)

LastStep == IF steps = << >> THEN << "", "" >> ELSE steps[Len(steps)]
Instantiated == << "lookup", MEMORY_EXPORT >> \in Range(steps)
\* hash_type returned a value that agrees with the host's flag
FlagsAgree == hashRet # None /\ ((hashRet[1] = 1) <=> host_sm)
\* the lookup of hash_type failed because the module does not export it
HashTypeMissing ==
    Done /\ LastStep = << "lookup", CONTRACT_HASH_TYPE >> /\ ~Exported(CONTRACT_HASH_TYPE)
\* the call of hash_type ended with a trap
HashTypeTrapped ==
    Done /\ LastStep = << "call", CONTRACT_HASH_TYPE >> /\ trap # None
\* the entry point was called and returned without a trap
EntryReturned == Done /\ LastStep = << "call", call_name >> /\ trap = None

\* C5: once hash_type has returned a value v on a deployment, the contract's
\* flag is (v = 1): if it differs from the host's flag execute has returned
\* contract-validation-failure with gas_left = 0 and no output and deploy is
\* not called; if it agrees the driver goes on to look up and call deploy.
\* deploy is only ever called after hash_type returned an agreeing value.
C5_HashTypeGate ==
    /\ hashRet # None =>
          IF FlagsAgree
          THEN /\ call_name = CONTRACT_DEPLOY
               /\ pc = "entry" \/ << "lookup", CONTRACT_DEPLOY >> \in Range(steps)
          ELSE /\ Done
               /\ Failed(EVMC_CONTRACT_VALIDATION_FAILURE)
               /\ ~Called(CONTRACT_DEPLOY)
    /\ Called(CONTRACT_DEPLOY) => FlagsAgree

C5_Witness ==
    /\ Done /\ kind = EVMC_CREATE
    /\ hashRet = Some(2) /\ host_sm
    /\ Failed(EVMC_CONTRACT_VALIDATION_FAILURE)

\* C6 as claimed: on a deployment that was instantiated, a missing hash_type
\* export and a trap in hash_type both give WASM-trap, gas_left = 0, no output.
C6_HashTypeFailuresTrap ==
    (HashTypeMissing \/ HashTypeTrapped) => Failed(EVMC_WASM_TRAP)

\* C6 amended: a trap in hash_type gives WASM-trap, a missing hash_type export
\* gives contract-validation-failure, both with gas_left = 0 and no output; in
\* neither case is deploy called: deploy needs a value returned by hash_type.
C6_HashTypeFailures ==
    /\ HashTypeMissing => Failed(EVMC_CONTRACT_VALIDATION_FAILURE)
    /\ HashTypeTrapped => Failed(EVMC_WASM_TRAP)
    /\ (HashTypeMissing \/ HashTypeTrapped) => ~Called(CONTRACT_DEPLOY)
    /\ Called(CONTRACT_DEPLOY) => hashRet # None

C6_Witness ==
    /\ HashTypeMissing
    /\ kind = EVMC_CREATE
    /\ Exported(MEMORY_EXPORT) /\ Exported(CONTRACT_MAIN) /\ Exported(CONTRACT_DEPLOY)
    /\ Failed(EVMC_CONTRACT_VALIDATION_FAILURE)

\* C7: a call whose module was compiled and instantiated but exports no main
\* gets contract-validation-failure with gas_left = 0 and no output, and no
\* guest export is called.
C7_CallWithoutMain ==
    (kind # EVMC_CREATE /\ Done /\ Instantiated /\ ~Exported(CONTRACT_MAIN)) =>
        /\ Failed(EVMC_CONTRACT_VALIDATION_FAILURE)
        /\ NoGuestCall

C7_Witness ==
    /\ Done /\ kind = EVMC_CALL
    /\ Exported(MEMORY_EXPORT) /\ Exported(CONTRACT_DEPLOY) /\ ~Exported(CONTRACT_MAIN)
    /\ LastStep = << "lookup", CONTRACT_MAIN >>
    /\ Failed(EVMC_CONTRACT_VALIDATION_FAILURE)

\* C8: for a kind other than deployment the export check and hash_type are
\* skipped: the two places of the export check never end the execution,
\* hash_type is neither looked up nor called, and the entry point is main; for
\* a deployment the entry point is deploy.
C8_CallNeedsOnlyMainInv ==
    /\ kind # EVMC_CREATE =>
          /\ call_name \in { "", CONTRACT_MAIN }
          /\ \A e \in Range(steps) : e[2] \notin { CONTRACT_HASH_TYPE, CONTRACT_DEPLOY }
          /\ hashRet = None
    /\ kind = EVMC_CREATE =>
          /\ call_name \in { "", CONTRACT_DEPLOY }
          /\ \A e \in Range(steps) : e[2] # CONTRACT_MAIN
C8_CallNeedsOnlyMainStep ==
    (kind # EVMC_CREATE /\ pc \in { "verify", "select" }) =>
        /\ result' = None
        /\ pc = "select" => call_name' = CONTRACT_MAIN /\ pc' = "entry"
C8_CallNeedsOnlyMain ==
    [](C8_CallNeedsOnlyMainInv) /\ [][C8_CallNeedsOnlyMainStep]_vars

C8_Witness ==
    /\ Done /\ kind = EVMC_CREATE2
    /\ ~Exported(CONTRACT_DEPLOY) /\ ~Exported(CONTRACT_HASH_TYPE)
    /\ Called(CONTRACT_MAIN)
    /\ result # None /\ result[1].status = EVMC_SUCCESS

\* C9: a call in which the guest called finish on a range inside memory, never
\* called revert, and whose entry point returned gets success, the bytes of
\* the (latest) finish range as they were at that finish call as output, and
\* the value of the gas counter at the return as gas_left.
C9_FinishThenReturn ==
    (kind # EVMC_CREATE /\ EntryReturned /\ lastFinish # None /\ lastRevert = None) =>
        result = Some([ status |-> EVMC_SUCCESS, gas_left |-> gas[1],
                        output |-> Some(lastFinish[1]) ])

C9_Witness ==
    /\ kind = EVMC_CALL /\ EntryReturned
    /\ lastFinish = Some(<< 7 >>) /\ lastRevert = None
    /\ mem[0] = 0
    /\ gas = Some(0) /\ msg_gas = 1
    /\ result[1].status = EVMC_SUCCESS

\* C10: an invocation of any kind in which the guest called revert on a range
\* inside memory and whose entry point returned gets revert, gas_left = 0 and
\* the bytes given to the (latest) revert as output, whatever the gas counter.
C10_RevertThenReturn ==
    (EntryReturned /\ lastRevert # None) =>
        result = Some([ status |-> EVMC_REVERT, gas_left |-> 0,
                        output |-> Some(lastRevert[1]) ])

C10_Witness ==
    /\ EntryReturned
    /\ lastRevert = Some(<< 7 >>)
    /\ gas # None /\ gas[1] > 0
    /\ result[1].status = EVMC_REVERT

\* C11: a deployment whose entry point returned and in which revert was never
\* called gets success with the submitted code bytes as output, whether or
\* not finish was called and whatever it was given; a success result whose
\* output is the finish buffer belongs to an invocation that is no deployment.
C11_DeploymentOutputIsCode ==
    /\ (kind = EVMC_CREATE /\ EntryReturned /\ lastRevert = None) =>
          result = Some([ status |-> EVMC_SUCCESS, gas_left |-> gas[1],
                          output |-> Some(code) ])
    /\ (EntryReturned /\ lastFinish # None /\ lastRevert = None
          /\ result[1].output = Some(lastFinish[1])) => kind # EVMC_CREATE

C11_Witness ==
    /\ kind = EVMC_CREATE /\ EntryReturned
    /\ lastFinish = Some(<< 7 >>) /\ lastRevert = None
    /\ result[1].status = EVMC_SUCCESS
    /\ result[1].output = Some(code)

FailureStatuses ==
    { EVMC_CONTRACT_VALIDATION_FAILURE, EVMC_WASM_TRAP, EVMC_INTERNAL_ERROR }

\* C12: in every result of execute, a failure status comes with gas_left = 0
\* and no output; output bytes come only with success or revert, and a
\* gas_left other than 0 only with success; also after a finish or revert
\* call that was followed by a trap.
C12_FailuresCarryNothing ==
    Done =>
        /\ result # None
        /\ result[1].status \in FailureStatuses =>
              (result[1].gas_left = 0 /\ result[1].output = None)
        /\ result[1].output # None => result[1].status \in { EVMC_SUCCESS, EVMC_REVERT }
        /\ result[1].gas_left # 0 => result[1].status = EVMC_SUCCESS
        /\ trap # None => result[1].status \in FailureStatuses

C12_Witness ==
    /\ Done /\ trap # None
    /\ LastStep = << "call", call_name >>
    /\ lastFinish = Some(<< 7 >>)
    /\ gas # None /\ gas[1] > 0
    /\ Failed(EVMC_WASM_TRAP)

\* C14: once the guest has called outOfGas, execute has ended with WASM-trap,
\* gas_left = 0 and no output, whatever the gas counter and whatever finish
\* or revert calls came before.
C14_OutOfGasTraps ==
    (fatal # None /\ fatal[1][1] = "outOfGas") =>
        (Done /\ trap = Some("Out Of Gas") /\ Failed(EVMC_WASM_TRAP))

C14_Witness ==
    /\ fatal = Some(<< "outOfGas", "always" >>)
    /\ LastStep = << "call", call_name >>
    /\ gas # None /\ gas[1] > 0
    /\ lastFinish # None /\ lastRevert # None
    /\ Failed(EVMC_WASM_TRAP)

\* C16: the gas counter is never negative, and a success result never carries
\* a negative gas_left.
C16_GasNeverNegative ==
    /\ gas # None => gas[1] >= 0
    /\ (Done /\ result[1].status = EVMC_SUCCESS) => result[1].gas_left >= 0

\* C17: the gas counter never increases in a step, and the gas_left of a
\* success result is never greater than message.gas.
C17_GasStep ==
    /\ (gas # None /\ gas' # None) => gas'[1] <= gas[1]
    /\ (pc' = "done" /\ result'[1].status = EVMC_SUCCESS) => result'[1].gas_left <= msg_gas

C17_GasNeverIncreases == [][C17_GasStep]_vars

\* C20: when the entry point returned, the status is revert exactly when the
\* revert flag is set, which is exactly when revert was called; the bytes are
\* then those of the latest revert, whatever finish was given; a call in which
\* neither was called gets success with empty output.
C20_OneBufferDecides ==
    EntryReturned =>
        /\ (result[1].status = EVMC_REVERT) <=> env.reverted
        /\ env.reverted <=> (lastRevert # None)
        /\ env.reverted => result[1].output = Some(lastRevert[1])
        /\ ~env.reverted => result[1].status = EVMC_SUCCESS
        /\ (kind # EVMC_CREATE /\ lastFinish = None /\ lastRevert = None) =>
              result = Some([ status |-> EVMC_SUCCESS, gas_left |-> gas[1],
                              output |-> Some(<< >>) ])

C20_Witness ==
    /\ EntryReturned
    /\ lastFinish = Some(<< 7 >>) /\ lastRevert = Some(<< >>)
    /\ env.output = << 7 >>
    /\ result[1].status = EVMC_REVERT
    /\ result[1].output = Some(<< >>)

\* the host functions that take an offset into guest memory
MemoryCapabilities ==
    { "finish", "revert", "getAddress", "getCallData", "setStorage", "getStorage",
      "getCaller", "getTxOrigin", "getExternalCodeSize", "log", "getReturnData", "call" }

\* C13: once the EnvironmentInterface has reported an out-of-range offset/size
\* to the adapter of a host function that touches guest memory, the guest
\* call has trapped and execute has ended with WASM-trap, gas_left = 0 and no
\* output: the guest never runs on after the error.
C13_OutOfRangeTraps ==
    (fatal # None /\ fatal[1][2] = "memory") =>
        /\ fatal[1][1] \in MemoryCapabilities
        /\ Done /\ running = ""
        /\ trap = Some(OutOfBounds)
        /\ Failed(EVMC_WASM_TRAP)

C13_Witness ==
    /\ fatal = Some(<< "getStorage", "memory" >>)
    /\ LastStep = << "call", CONTRACT_MAIN >>
    /\ lastFinish # None
    /\ gas # None /\ gas[1] > 0
    /\ Failed(EVMC_WASM_TRAP)

\* C15: the call host function returns to the guest only for a nested status
\* of 0, and then the value 0; once a nested invocation has returned another
\* status the guest call has trapped and execute has ended with WASM-trap,
\* gas_left = 0 and no output.
C15_NestedFailureTraps ==
    /\ callRet # None => callRet[1] = << 0, 0 >>
    /\ (fatal # None /\ fatal[1] = << "call", "status" >>) =>
          (Done /\ running = "" /\ trap = Some("call failed") /\ Failed(EVMC_WASM_TRAP))

C15_Witness ==
    /\ fatal = Some(<< "call", "status" >>)
    /\ callRet = Some(<< 0, 0 >>)
    /\ LastStep = << "call", CONTRACT_MAIN >>
    /\ lastFinish # None
    /\ gas # None /\ gas[1] > 0
    /\ Failed(EVMC_WASM_TRAP)

\* C18: a getStorage call that returned wrote at most 16384 bytes into guest
\* memory, and the number it returned is the number of bytes written, the
\* smaller of the stored length and 16384, also for a longer stored value.
C18_GetStorageCap ==
    (storageCall # None /\ storageCall[1].returned # None) =>
        /\ storageCall[1].written <= 16384
        /\ storageCall[1].returned = Some(storageCall[1].written)
        /\ storageCall[1].written =
              (IF storageCall[1].stored_len <= 16384 THEN storageCall[1].stored_len
               ELSE 16384)

C18_Witness ==
    /\ storageCall # None
    /\ storageCall[1].stored_len = 16385
    /\ storageCall[1].value_offset = 49152
    /\ storageCall[1].returned = Some(16384)
    /\ Done /\ result[1].status = EVMC_SUCCESS

\* C19: the Mutex around the EnvironmentInterface has at most one holder;
\* nobody ever waits for it: it is free whenever an adapter or the driver
\* is about to lock it; it is free whenever guest code runs, after an adapter
\* returned Ok as well as after it returned a Trap, and when execute returned.
C19_LockDiscipline ==
    /\ Cardinality(lock) <= 1
    /\ pc # "blocked"
    /\ hostAt # None => hostAt[1][2] # "blocked"
    /\ (hostAt # None /\ hostAt[1][2] = "lock") => lock = { }
    /\ pc \in { "link", "memory", "assemble" } => lock = { }
    /\ pc = "guest" => (lock = { } /\ hostAt = None)
    /\ Done => (lock = { } /\ hostAt = None)

C19_Witness ==
    /\ callRet = Some(<< 0, 0 >>)
    /\ fatal = Some(<< "finish", "memory" >>)
    /\ Done /\ Failed(EVMC_WASM_TRAP)
    /\ lock = { }

\* number of times the driver started a call of the export name
CallsOf(name) == Cardinality({ i \in DOMAIN steps : steps[i] = << "call", name >> })
EntryInvoked == Called(CONTRACT_MAIN) \/ Called(CONTRACT_DEPLOY)
\* the engine operations of an execution that reached the call of its entry point
StepsToEntry ==
    << << "compile", "" >>, << "instantiate", "" >>, << "lookup", MEMORY_EXPORT >> >>
    \o (IF kind = EVMC_CREATE
        THEN << << "lookup", CONTRACT_HASH_TYPE >>, << "call", CONTRACT_HASH_TYPE >> >>
        ELSE << >>)
    \o << << "lookup", call_name >>, << "call", call_name >> >>
\* place of a driver position p, with the export r running, in the order of execute
Rank(p, r) ==
    CASE p = "context" -> 1
      [] p = "preamble" -> 2
      [] p = "version" -> 3
      [] p = "compile" -> 4
      [] p = "link" -> 5
      [] p = "verify" -> 6
      [] p = "instantiate" -> 7
      [] p = "memory" -> 8
      [] p = "select" -> 9
      [] p = "hash_type" -> 10
      [] p = "guest" /\ r = CONTRACT_HASH_TYPE -> 11
      [] p = "entry" -> 12
      [] p = "guest" /\ r # CONTRACT_HASH_TYPE -> 13
      [] p = "assemble" -> 14
      [] OTHER -> 15

C21_EntryAfterChecksInv ==
    /\ EntryInvoked =>
          /\ ctx /\ StartsWithMagic(code) /\ HasVersion1(code)
          /\ exports # None
          /\ kind = EVMC_CREATE => (verify_contract(exports[1]) /\ FlagsAgree)
          /\ call_name = (IF kind = EVMC_CREATE THEN CONTRACT_DEPLOY ELSE CONTRACT_MAIN)
          /\ steps = StepsToEntry
    /\ CallsOf(CONTRACT_MAIN) + CallsOf(CONTRACT_DEPLOY) <= 1
    /\ (Done /\ result[1].status \in { EVMC_CONTRACT_VALIDATION_FAILURE,
                                        EVMC_INTERNAL_ERROR }) => ~EntryInvoked
    /\ Done <=> (result # None)

C21_EntryAfterChecksStep ==
    /\ Rank(pc', running') >= Rank(pc, running)
    /\ pc' # pc => Rank(pc', running') > Rank(pc, running)
    /\ result # None => UNCHANGED vars
    /\ Len(steps') >= Len(steps) /\ SubSeq(steps', 1, Len(steps)) = steps

\* C21: the driver starts the call of the selected entry point (deploy for a
\* deployment, main otherwise) at most once, and only when the context was
\* there, the code passed the preamble and the version check, was compiled,
\* (deployment) passed the export check, was instantiated, the memory export
\* was found, (deployment) hash_type was called and its flag agreed, and the
\* entry point was looked up, in this order of the driver's positions; an
\* execution with contract-validation-failure or internal-error never started
\* deploy or main, and the result, once returned, is the only one.
C21_EntryAfterChecks ==
    [](C21_EntryAfterChecksInv) /\ [][C21_EntryAfterChecksStep]_vars

C21_Witness ==
    /\ kind = EVMC_CREATE /\ EntryReturned
    /\ CallsOf(CONTRACT_DEPLOY) = 1
    /\ hashRet = Some(1) /\ host_sm
    /\ steps = StepsToEntry
    /\ result[1].status = EVMC_SUCCESS
====
